---- MODULE Spec2Model ----
(***************************************************************************)
(* A model of icc.py: ICCProfile.unpack decoding an ICC profile file       *)
(* (128-byte header, 4-byte tag count, 12-byte directory entries, tag      *)
(* payloads) and ICCProfile.get_version_str formatting the header version. *)
(* Bytes are integers 0..255, byte strings are sequences of bytes, and an  *)
(* ICCProfile object is the function from its attribute names to values    *)
(* (an attribute that was never assigned is not in the domain).            *)
(***************************************************************************)
EXTENDS Integers, Sequences, FiniteSets, TLC

VARIABLES
    self,         \* the ICCProfile object: attribute name -> value
    present,      \* whether the file named by the call's filename exists
    filedata,     \* the bytes of the file named by the call's filename
    iccf,         \* the file object of the with statement: state and position
    pc,           \* where the current unpack call stands ("idle": no call)
    acc,          \* the list a running list comprehension has built so far
    exc,          \* the exception the current/last call raised, or "none"
    raised_at,    \* the step of unpack that raised it
    before,       \* the object as it was when the current/last call began
    history,      \* the completed unpack calls: input, outcome, payloads
    calls,        \* number of unpack calls started on the object
    version_str   \* result of the last get_version_str call

vars == <<self, present, filedata, iccf, pc, acc, exc, raised_at, before,
          history, calls, version_str>>

-----------------------------------------------------------------------------
(* Bounds of the model. *)

MaxTags == 2      \* most directory entries of a generated profile
MaxSize == 2      \* largest declared tag size of a generated profile
MaxExtra == 1     \* bytes that follow the last payload in a generated file
MaxCalls == 2     \* unpack calls on one object (specification SpecReuse)

-----------------------------------------------------------------------------
(* Byte strings. *)

Min(a, b) == IF a < b THEN a ELSE b
Max(a, b) == IF a > b THEN a ELSE b

\* Python's s[start : start + n] on a byte string (0-based, clipped to s).
Slice(s, start, n) ==
    LET m == Max(0, Min(n, Len(s) - start))
    IN  [k \in 1..m |-> s[start + k]]

Zeros(n) == [k \in 1..n |-> 0]

\* The value of an unsigned integer field, most significant byte first.
RECURSIVE BigEndian(_)
BigEndian(b) ==
    IF b = <<>> THEN 0
    ELSE 256 * BigEndian(SubSeq(b, 1, Len(b) - 1)) + b[Len(b)]

-----------------------------------------------------------------------------
(* The struct module: format strings, calcsize and unpack.  A format is    *)
(* the sequence of its items <<repeat count, code>>; ">" (big-endian, no   *)
(* padding) is the byte order of every format of the program.              *)

HeaderFormat ==     \* ">2I4s3I12s5IQI12sI16sI6s6s3I"
    << <<2, "I">>, <<4, "s">>, <<3, "I">>, <<12, "s">>, <<5, "I">>,
       <<1, "Q">>, <<1, "I">>, <<12, "s">>, <<1, "I">>, <<16, "s">>,
       <<1, "I">>, <<6, "s">>, <<6, "s">>, <<3, "I">> >>

CountFormat == << <<1, "I">> >>                             \* ">I"

TagFormat == << <<4, "s">>, <<1, "I">>, <<1, "I">> >>       \* ">4sII"

\* Width in bytes of one value of an integer code.
CodeWidth(code) == IF code = "Q" THEN 8 ELSE 4

\* A format as the sequence of its fields <<code, width in bytes>>: an
\* integer item with count n is n fields, an "s" item with count n is one
\* field of n bytes.
RECURSIVE FormatFields(_)
FormatFields(fmt) ==
    IF fmt = <<>> THEN <<>>
    ELSE LET item == Head(fmt)
         IN  (IF item[2] = "s"
                 THEN << <<"s", item[1]>> >>
                 ELSE [k \in 1..item[1] |-> <<item[2], CodeWidth(item[2])>>])
             \o FormatFields(Tail(fmt))

RECURSIVE FieldsSize(_)
FieldsSize(fields) ==
    IF fields = <<>> THEN 0 ELSE Head(fields)[2] + FieldsSize(Tail(fields))

\* struct.calcsize(fmt)
calcsize(fmt) == FieldsSize(FormatFields(fmt))

\* The value of one field: an integer for I and Q, the bytes for s.
UnpackUInt(b) == BigEndian(b)

FieldValue(field, b) == IF field[1] = "s" THEN b ELSE UnpackUInt(b)

RECURSIVE UnpackFields(_, _, _)
UnpackFields(fields, buf, at) ==
    IF fields = <<>> THEN <<>>
    ELSE <<FieldValue(Head(fields), Slice(buf, at, Head(fields)[2]))>>
         \o UnpackFields(Tail(fields), buf, at + Head(fields)[2])

\* struct.unpack(fmt, buf) raises struct.error unless buf has exactly
\* calcsize(fmt) bytes.
UnpackAcceptsShort(fmt, buf) == Len(buf) <= calcsize(fmt)
UnpackAccepts(fmt, buf) == Len(buf) = calcsize(fmt)

\* struct.unpack(fmt, buf) when it does not raise: the tuple of the values.
struct_unpack(fmt, buf) == UnpackFields(FormatFields(fmt), buf, 0)

-----------------------------------------------------------------------------
(* The namedtuples. *)

ICCHeaderFields ==
    <<"size", "pref_cmm_type", "version", "profile_class", "colour_space",
      "pcs", "created_at", "acsp", "primary_plat_sig", "flags",
      "dev_manufacturer", "dev_model", "dev_attributes", "rendering_intent",
      "nCIEXYZ", "creator_sig", "id", "spectral_pcs", "spectral_pcs_wl",
      "bispectral_pcs_wl", "mcs_sig", "subclass", "reserved">>

ICCTagFields == <<"signature", "offset", "size">>

\* namedtuple(*values): field name -> value, names and values paired in
\* order (both formats yield as many values as the tuple has fields).
NamedTuple(fields, values) ==
    [name \in {fields[k] : k \in 1..Len(fields)} |->
        values[CHOOSE k \in 1..Len(fields) : fields[k] = name]]

ICCHeader(values) == NamedTuple(ICCHeaderFields, values)
ICCTag(values) == NamedTuple(ICCTagFields, values)

-----------------------------------------------------------------------------
(* The input files.  A generated profile is a header, a tag count N, N      *)
(* directory entries and the N payloads in directory order, followed by     *)
(* MaxExtra further bytes; the inputs are its prefixes, so that they cover  *)
(* the well-formed files (with and without trailing bytes) and every        *)
(* truncation of them.  Integer fields stay below 2^31.                     *)

\* n as w bytes, most significant first.
RECURSIVE Encode(_, _)
Encode(n, w) ==
    IF w = 0 THEN <<>> ELSE Encode(n \div 256, w - 1) \o <<n % 256>>

RECURSIVE Concat(_)
Concat(seqs) == IF seqs = <<>> THEN <<>> ELSE Head(seqs) \o Concat(Tail(seqs))

Prefix(s, n) == SubSeq(s, 1, n)

\* Tag signatures: desc, cprt, vcgt, wtpt.
Signatures ==
    << <<100, 101, 115, 99>>, <<99, 112, 114, 116>>,
       <<118, 99, 103, 116>>, <<119, 116, 112, 116>> >>

SignatureOf(i) == Signatures[((i - 1) % Len(Signatures)) + 1]

\* Version fields: ICC 2.1.0, 4.3.0 and values that fill each nibble.
Versions ==
    { <<2, 16, 0, 0>>, <<4, 48, 0, 0>>, <<0, 15, 255, 1>>, <<255, 240, 9, 255>>,
      <<5, 255, 10, 100>>, <<12, 35, 200, 7>>, <<0, 0, 0, 0>> }

DefaultVersion == <<2, 16, 0, 0>>

\* A 128-byte header: profile size, CMM "lcms", version, class "mntr",
\* colour space "RGB ", PCS "XYZ ", a creation date, the magic "acsp",
\* platform "APPL", zeroed flags/manufacturer/model/attributes/intent,
\* the D50 illuminant, creator "lcms" and zeroes to the end.
HeaderBytes(size, version) ==
    Encode(size, 4) \o <<108, 99, 109, 115>> \o version
    \o <<109, 110, 116, 114>> \o <<82, 71, 66, 32>> \o <<88, 89, 90, 32>>
    \o <<7, 225, 0, 3, 0, 14, 0, 9, 0, 30, 0, 59>>
    \o <<97, 99, 115, 112>> \o <<65, 80, 80, 76>>
    \o Zeros(4) \o Zeros(4) \o Zeros(4) \o Zeros(8) \o Zeros(4)
    \o <<0, 0, 246, 214, 0, 1, 0, 0, 0, 0, 211, 45>>
    \o <<108, 99, 109, 115>> \o Zeros(16) \o Zeros(28)

\* What a directory entry may declare as its offset: the absolute position
\* of its payload in the file, or something else.
OffsetKinds == {"absolute", "zero"}

\* The shapes of a directory: per entry its declared size and offset kind.
TagShapes == [size : 0..MaxSize, kind : OffsetKinds]

Directories == UNION {[1..n -> TagShapes] : n \in 0..MaxTags}

\* The generated profiles: every directory under the default version, and
\* every version with an empty directory.
Profiles ==
    {[version |-> DefaultVersion, dir |-> d] : d \in Directories}
    \cup {[version |-> v, dir |-> <<>>] : v \in Versions}

RECURSIVE SumSizes(_, _)
SumSizes(dir, n) == IF n = 0 THEN 0 ELSE SumSizes(dir, n - 1) + dir[n].size

\* Position of payload i of a well-formed profile with directory dir.
PayloadOffset(dir, i) == 132 + 12 * Len(dir) + SumSizes(dir, i - 1)

\* The entries of a profile, as the decoder is to return them.
EntriesOf(p) ==
    [i \in 1..Len(p.dir) |->
        [signature |-> SignatureOf(i),
         offset |-> IF p.dir[i].kind = "absolute"
                       THEN PayloadOffset(p.dir, i) ELSE 0,
         size |-> p.dir[i].size]]

\* The payloads of a profile: payload i is size_i bytes, all distinct
\* across the file.
PayloadsOf(p) ==
    [i \in 1..Len(p.dir) |->
        [k \in 1..p.dir[i].size |-> (16 * i + k) % 256]]

EncodeEntry(e) == e.signature \o Encode(e.offset, 4) \o Encode(e.size, 4)

\* The well-formed byte stream of a profile.
Build(p) ==
    LET entries == EntriesOf(p)
        payloads == PayloadsOf(p)
        total == PayloadOffset(p.dir, Len(p.dir) + 1)
    IN  HeaderBytes(total, p.version)
        \o Encode(Len(p.dir), 4)
        \o Concat([i \in 1..Len(entries) |-> EncodeEntry(entries[i])])
        \o Concat(payloads)

Trailing == [k \in 1..MaxExtra |-> 238]

\* The inputs: every prefix of a header, and every prefix that holds the
\* whole header of a generated profile followed by the trailing bytes.
Files ==
    {Prefix(HeaderBytes(132, DefaultVersion), n) : n \in 0..127}
    \cup UNION {{Prefix(Build(p) \o Trailing, n) :
                    n \in 128..(Len(Build(p)) + MaxExtra)} : p \in Profiles}

\* The inputs of repeated calls on one object: the prefixes of length 0 and
\* 127 of a header, and of the profiles whose entries all declare MaxSize
\* bytes every prefix that holds the whole header.
ReuseFiles ==
    {Prefix(HeaderBytes(132, DefaultVersion), n) : n \in {0, 127}}
    \cup UNION {{Prefix(Build(p) \o Trailing, n) :
                    n \in 128..(Len(Build(p)) + MaxExtra)} :
                p \in {q \in Profiles :
                        /\ q.version = DefaultVersion
                        /\ \A i \in 1..Len(q.dir) : q.dir[i].size = MaxSize}}

-----------------------------------------------------------------------------
(* Objects and file objects. *)

\* An object with no attribute assigned yet.
NoAttributes == <<>>

HasAttr(obj, name) == name \in DOMAIN obj

\* obj.name = value
SetAttr(obj, name, value) ==
    [a \in DOMAIN obj \cup {name} |-> IF a = name THEN value ELSE obj[a]]

NoFile == [state |-> "none", pos |-> 0]

\* open(filename, "rb") on an existing file.
OpenedFile == [state |-> "open", pos |-> 0]

\* The bytes f.read(n) returns at position pos: the n next bytes, or as many
\* as are left.
ReadBytes(data, pos, n) == Slice(data, pos, n)

\* Where the payload of tag is read from: the current position of the file
\* object (tag.offset plays no part).
SeekToOffset(f, tag) == tag.offset
PayloadPos(f, tag) == f.pos

\* The file object's state when the with block is left, normally or by the
\* exception e.
LeakOnError(e) == IF e = "none" THEN "closed" ELSE "open"
WithExitState(e) == "closed"

\* How many entries the directory comprehension reads: range(num_tags).
RangeOffByOne(n) == n - 1
RangeLen(n) == n

-----------------------------------------------------------------------------
(* get_version_str *)

\* a >> k
ShiftRight(a, k) == a \div (2 ^ k)

\* a & b on non-negative integers.
RECURSIVE BitAnd(_, _)
BitAnd(a, b) ==
    IF a = 0 \/ b = 0 THEN 0
    ELSE 2 * BitAnd(a \div 2, b \div 2) + (a % 2) * (b % 2)

Digits == <<"0", "1", "2", "3", "4", "5", "6", "7", "8", "9">>

\* format() of a non-negative integer: its decimal digits.
RECURSIVE Str(_)
Str(n) == IF n < 10 THEN Digits[n + 1] ELSE Str(n \div 10) \o Digits[(n % 10) + 1]

\* "{major}.{minor}.{bugfix} sub {smajor}.{sminor}" as its replacement
\* fields and literal text.
verfmt ==
    << <<"field", "major">>, <<"text", ".">>, <<"field", "minor">>,
       <<"text", ".">>, <<"field", "bugfix">>, <<"text", " sub ">>,
       <<"field", "smajor">>, <<"text", ".">>, <<"field", "sminor">> >>

\* template.format(**kwargs)
RECURSIVE Format(_, _)
Format(template, kwargs) ==
    IF template = <<>> THEN ""
    ELSE LET part == Head(template)
         IN  (IF part[1] = "field" THEN Str(kwargs[part[2]]) ELSE part[2])
             \o Format(Tail(template), kwargs)

\* The minor keyword: version[1] >> 4 (bytes are indexed from 0 in the
\* program and from 1 here).
MinorUnshifted(version) == BitAnd(version[2], 240)
Minor(version) == ShiftRight(version[2], 4)

\* The bugfix keyword: version[1] & 0xf.
Bugfix(version) == BitAnd(version[2], 15)

get_version_str(obj) ==
    LET version == obj["header"]["version"]
    IN  Format(verfmt, [major |-> version[1],
                        minor |-> Minor(version),
                        bugfix |-> Bugfix(version),
                        smajor |-> version[3],
                        sminor |-> version[4]])

-----------------------------------------------------------------------------
(* The state machine. *)

Init ==
    /\ self = NoAttributes
    /\ present = TRUE
    /\ filedata = <<>>
    /\ iccf = NoFile
    /\ pc = "idle"
    /\ acc = <<>>
    /\ exc = "none"
    /\ raised_at = "none"
    /\ before = NoAttributes
    /\ history = <<>>
    /\ calls = 0
    /\ version_str = ""

\* What a completed call leaves in the history.
Outcome(obj, e, at) ==
    [data |-> filedata, present |-> present, exc |-> e, raised_at |-> at,
     tag_elements |-> IF HasAttr(obj, "tag_elements")
                         THEN obj["tag_elements"] ELSE <<>>]

\* unpack(filename) is called on a file with the bytes data, or on a name
\* that is no file.
Call(data, exists) ==
    /\ pc = "idle"
    /\ pc' = "open"
    /\ filedata' = data
    /\ present' = exists
    /\ iccf' = NoFile
    /\ acc' = <<>>
    /\ exc' = "none"
    /\ raised_at' = "none"
    /\ before' = self
    /\ calls' = calls + 1
    /\ version_str' = ""
    /\ UNCHANGED <<self, history>>

\* The one unpack call of ICCProfile(filename), or the first on an object.
FirstUnpack ==
    /\ calls = 0
    /\ \/ \E data \in Files : Call(data, TRUE)
       \/ Call(<<>>, FALSE)

\* unpack called on an object again and again.
RepeatedUnpack ==
    /\ calls < MaxCalls
    /\ \/ \E data \in ReuseFiles : Call(data, TRUE)
       \/ Call(<<>>, FALSE)

\* with open(filename, "rb") as iccf:
Open ==
    /\ pc = "open"
    /\ present
    /\ iccf' = OpenedFile
    /\ pc' = "header"
    /\ UNCHANGED <<self, present, filedata, acc, exc, raised_at, before,
                   history, calls, version_str>>

\* open raises: no file object exists and the call ends.
OpenFails ==
    /\ pc = "open"
    /\ ~present
    /\ exc' = "FileNotFoundError"
    /\ raised_at' = "open"
    /\ history' = Append(history, Outcome(self, "FileNotFoundError", "open"))
    /\ pc' = "idle"
    /\ UNCHANGED <<self, present, filedata, iccf, acc, before, calls,
                   version_str>>

\* A step that reads n bytes and unpacks them with fmt: the read moves the
\* position, then either Then(values) assigns, or struct.error leaves the
\* with block.
ReadAndUnpack(step, n, fmt, next) ==
    LET buf == ReadBytes(filedata, iccf.pos, n)
    IN  /\ iccf' = [iccf EXCEPT !.pos = iccf.pos + Len(buf)]
        /\ IF UnpackAccepts(fmt, buf)
              THEN /\ pc' = next
                   /\ UNCHANGED <<exc, raised_at>>
              ELSE /\ pc' = "exit"
                   /\ exc' = "struct.error"
                   /\ raised_at' = step

\* header_data = struct.unpack(..., iccf.read(128)); self.header = ...
ReadHeader ==
    /\ pc = "header"
    /\ ReadAndUnpack("header", 128, HeaderFormat, "count")
    /\ LET buf == ReadBytes(filedata, iccf.pos, 128)
       IN  self' = IF UnpackAccepts(HeaderFormat, buf)
                      THEN SetAttr(self, "header",
                                   ICCHeader(struct_unpack(HeaderFormat, buf)))
                      ELSE self
    /\ UNCHANGED <<present, filedata, acc, before, history, calls, version_str>>

\* self.num_tags = struct.unpack(">I", iccf.read(4))[0]
ReadCount ==
    /\ pc = "count"
    /\ ReadAndUnpack("count", 4, CountFormat, "dir")
    /\ LET buf == ReadBytes(filedata, iccf.pos, 4)
       IN  self' = IF UnpackAccepts(CountFormat, buf)
                      THEN SetAttr(self, "num_tags",
                                   struct_unpack(CountFormat, buf)[1])
                      ELSE self
    /\ UNCHANGED <<present, filedata, acc, before, history, calls, version_str>>

\* One iteration of [ICCTag(*struct.unpack(">4sII", iccf.read(12)))
\*                   for i in range(self.num_tags)]
ReadTag ==
    /\ pc = "dir"
    /\ Len(acc) < RangeLen(self["num_tags"])
    /\ ReadAndUnpack("dir", 12, TagFormat, "dir")
    /\ LET buf == ReadBytes(filedata, iccf.pos, 12)
       IN  acc' = IF UnpackAccepts(TagFormat, buf)
                     THEN Append(acc, ICCTag(struct_unpack(TagFormat, buf)))
                     ELSE acc
    /\ UNCHANGED <<self, present, filedata, before, history, calls, version_str>>

\* self.tags = [...], once the comprehension has run through its range.
AssignTags ==
    /\ pc = "dir"
    /\ Len(acc) >= RangeLen(self["num_tags"])
    /\ self' = SetAttr(self, "tags", acc)
    /\ acc' = <<>>
    /\ pc' = "payload"
    /\ UNCHANGED <<present, filedata, iccf, exc, raised_at, before, history,
                   calls, version_str>>

\* One iteration of [iccf.read(tag.size) for tag in self.tags]: read never
\* raises, it returns the bytes that are left when fewer than tag.size are.
ReadPayload ==
    /\ pc = "payload"
    /\ Len(acc) < Len(self["tags"])
    /\ LET tag == self["tags"][Len(acc) + 1]
           from == PayloadPos(iccf, tag)
           buf == ReadBytes(filedata, from, tag["size"])
       IN  /\ acc' = Append(acc, buf)
           /\ iccf' = [iccf EXCEPT !.pos = from + Len(buf)]
    /\ UNCHANGED <<self, present, filedata, pc, exc, raised_at, before,
                   history, calls, version_str>>

\* self.tag_elements = [...]
AssignElements ==
    /\ pc = "payload"
    /\ Len(acc) = Len(self["tags"])
    /\ self' = SetAttr(self, "tag_elements", acc)
    /\ acc' = <<>>
    /\ pc' = "exit"
    /\ UNCHANGED <<present, filedata, iccf, exc, raised_at, before, history,
                   calls, version_str>>

\* The with block is left, at its end or by an exception: the file object is
\* closed, and unpack returns or the exception propagates to the caller.
WithExit ==
    /\ pc = "exit"
    /\ iccf' = [iccf EXCEPT !.state = WithExitState(exc)]
    /\ acc' = <<>>
    /\ history' = Append(history, Outcome(self, exc, raised_at))
    /\ pc' = "idle"
    /\ UNCHANGED <<self, present, filedata, exc, raised_at, before, calls,
                   version_str>>

\* get_version_str() on an object that has a header (without one it raises
\* AttributeError and nothing changes).
GetVersionStr ==
    /\ pc = "idle"
    /\ HasAttr(self, "header")
    /\ version_str' = get_version_str(self)
    /\ UNCHANGED <<self, present, filedata, iccf, pc, acc, exc, raised_at,
                   before, history, calls>>

Steps ==
    \/ Open
    \/ OpenFails
    \/ ReadHeader
    \/ ReadCount
    \/ ReadTag
    \/ AssignTags
    \/ ReadPayload
    \/ AssignElements
    \/ WithExit
    \/ GetVersionStr

Next == FirstUnpack \/ Steps

\* One object, one unpack call, every input.
Spec == Init /\ [][Next]_vars

NextReuse == RepeatedUnpack \/ Steps

\* One object, up to MaxCalls unpack calls.
SpecReuse == Init /\ [][NextReuse]_vars

-----------------------------------------------------------------------------
(* What the properties below read off a state. *)

\* The last unpack call has ended.
CallEnded == pc = "idle" /\ calls > 0

\* The tag count and the declared sizes as the bytes of an input state them.
DeclaredCount(data) == BigEndian(Slice(data, 128, 4))
DeclaredSize(data, i) == BigEndian(Slice(data, 132 + 12 * (i - 1) + 8, 4))

RECURSIVE DeclaredSizes(_, _)
DeclaredSizes(data, n) ==
    IF n = 0 THEN 0 ELSE DeclaredSizes(data, n - 1) + DeclaredSize(data, n)

\* The input holds the header, the count and the whole directory.
HoldsDirectory(data) ==
    Len(data) >= 132 /\ Len(data) >= 132 + 12 * DeclaredCount(data)

\* The well-formed byte streams, each with the profile it encodes.
WellFormed == {[profile |-> p, bytes |-> Build(p)] : p \in Profiles}

UnpackAttributes == {"header", "num_tags", "tags", "tag_elements"}

-----------------------------------------------------------------------------
(* C1: unpack of a well-formed stream (header, count N, N entries, the N    *)
(* payloads in directory order, payload i of size_i bytes) returns with     *)
(* num_tags = N, tags the N entries in file order and tag_elements[i] the   *)
(* original payload i.                                                      *)
RoundTrip ==
    (CallEnded /\ present) =>
        \A w \in WellFormed :
            (Len(filedata) = Len(w.bytes) /\ filedata = w.bytes) =>
                /\ exc = "none"
                /\ self["num_tags"] = Len(w.profile.dir)
                /\ Len(self["tags"]) = Len(w.profile.dir)
                /\ \A i \in 1..Len(w.profile.dir) :
                      /\ self["tags"][i]["signature"] = EntriesOf(w.profile)[i].signature
                      /\ self["tags"][i]["offset"] = EntriesOf(w.profile)[i].offset
                      /\ self["tags"][i]["size"] = EntriesOf(w.profile)[i].size
                /\ self["tag_elements"] = PayloadsOf(w.profile)
                /\ \A i \in 1..Len(w.profile.dir) :
                      Len(self["tag_elements"][i]) = w.profile.dir[i].size

\* A profile of MaxTags tags, each of MaxSize bytes and declaring offset 0,
\* has been decoded.
RoundTripWitness ==
    /\ CallEnded /\ present /\ exc = "none"
    /\ \E w \in WellFormed :
          /\ filedata = w.bytes
          /\ Len(w.profile.dir) = MaxTags
          /\ \A i \in 1..MaxTags :
                w.profile.dir[i].size = MaxSize /\ w.profile.dir[i].kind = "zero"
          /\ self["tag_elements"] = PayloadsOf(w.profile)

(* C2: when the header, the count and the whole directory are present but   *)
(* the declared sizes sum to more bytes than remain, unpack fails at the    *)
(* payload step, and it never returns with a payload shorter than its       *)
(* entry's declared size.                                                   *)
TruncatedPayloadFails ==
    (CallEnded /\ present /\ HoldsDirectory(filedata)) =>
        LET n == DeclaredCount(filedata)
        IN  /\ (132 + 12 * n + DeclaredSizes(filedata, n) > Len(filedata)) =>
                  exc # "none" /\ raised_at = "payload"
            /\ exc = "none" =>
                  \A i \in 1..n :
                      Len(self["tag_elements"][i]) = self["tags"][i]["size"]

(* C3: an unpack call that fails leaves the object's header, num_tags, tags *)
(* and tag_elements exactly as they were before the call.                   *)
AllOrNothing ==
    (CallEnded /\ exc # "none") => self = before

(* C4: on an input of 0..127 bytes unpack fails at the header step and      *)
(* assigns no attribute: from the header step on the call is on its way out *)
(* with struct.error and the object is as it was before the call, without   *)
(* a header.                                                                *)
ShortHeaderFails ==
    (calls > 0 /\ present /\ Len(filedata) < 128 /\ pc \notin {"open", "header"}) =>
        /\ pc \in {"exit", "idle"}
        /\ exc = "struct.error"
        /\ raised_at = "header"
        /\ self = before
        /\ \A a \in UnpackAttributes : ~HasAttr(self, a)

\* A call on 127 bytes has ended.
ShortHeaderWitness ==
    /\ CallEnded /\ present /\ Len(filedata) = 127
    /\ exc = "struct.error" /\ raised_at = "header"
    /\ iccf.pos = 127

(* C5: on an input with the header and a count N but fewer than 12 * N      *)
(* further bytes, unpack fails at the directory step with struct.error and  *)
(* never reaches the payload step; with N = 0 the directory step reads      *)
(* nothing and does not fail.                                               *)
TruncatedDirectoryFails ==
    (calls > 0 /\ present /\ Len(filedata) >= 132) =>
        LET n == DeclaredCount(filedata)
        IN  /\ (Len(filedata) - 132 < 12 * n) =>
                  /\ pc \notin {"payload"}
                  /\ ~HasAttr(self, "tags")
                  /\ pc \in {"exit", "idle"} =>
                        /\ exc = "struct.error"
                        /\ raised_at = "dir"
                        /\ Len(acc) < n
            /\ (n = 0 /\ pc \in {"payload", "exit", "idle"}) =>
                  /\ exc = "none"
                  /\ self["tags"] = <<>>
                  /\ iccf.pos = 132

\* A call has failed on an input that ends in the middle of its second
\* directory record.
TruncatedDirectoryWitness ==
    /\ CallEnded /\ present /\ Len(filedata) = 132 + 12 + 5
    /\ DeclaredCount(filedata) = 2
    /\ exc = "struct.error" /\ raised_at = "dir"

(* C6: between unpack calls, whenever tags is set, len(tags) = num_tags,    *)
(* tag_elements is as long as tags, and tag_elements[i] is what was read    *)
(* for tags[i] (at most tags[i].size bytes).                                *)
ShapeInvariant ==
    (pc = "idle" /\ HasAttr(self, "tags")) =>
        /\ HasAttr(self, "num_tags")
        /\ Len(self["tags"]) = self["num_tags"]
        /\ HasAttr(self, "tag_elements")
        /\ Len(self["tag_elements"]) = Len(self["tags"])
        /\ \A i \in 1..Len(self["tags"]) :
              Len(self["tag_elements"][i]) <= self["tags"][i]["size"]

\* Two inputs are the same bytes but for the offset fields (bytes 4..7 of a
\* directory record) of the directory they declare.
SameButOffsets(d1, d2) ==
    /\ Len(d1) = Len(d2)
    /\ \A k \in 0..(Len(d1) - 1) :
          \/ d1[k + 1] = d2[k + 1]
          \/ /\ k >= 132
             /\ k < 132 + 12 * DeclaredCount(d1)
             /\ ((k - 132) % 12) \in 4..7

\* Two completed calls whose inputs differ only in offset fields ended the
\* same way and, when they returned, with the same tag_elements.
SameOutcomeWhateverOffsets ==
    \A a, b \in 1..Len(history) :
        (/\ history[a].present /\ history[b].present
         /\ SameButOffsets(history[a].data, history[b].data)) =>
            /\ history[a].exc = history[b].exc
            /\ history[a].exc = "none" =>
                  history[a].tag_elements = history[b].tag_elements

\* After a call that returned, payload i is size_i bytes long and is the
\* bytes of the input from 132 + 12 * N + (the sizes before i) on.
PayloadAtRunningPosition ==
    (CallEnded /\ present /\ exc = "none") =>
        LET n == DeclaredCount(filedata)
        IN  \A i \in 1..n :
              /\ Len(self["tag_elements"][i]) = DeclaredSize(filedata, i)
              /\ self["tag_elements"][i] =
                    Slice(filedata,
                          132 + 12 * n + DeclaredSizes(filedata, i - 1),
                          DeclaredSize(filedata, i))

(* C7: two inputs that differ only in the offset fields of their directory  *)
(* have the same outcome and, on success, the same tag_elements; and after  *)
(* a successful call payload i is the size_i bytes of the input that start  *)
(* at 132 + 12 * N + (the sizes before i), whatever offset_i says.          *)
OffsetsIgnored == SameOutcomeWhateverOffsets /\ PayloadAtRunningPosition

(* C8: the file opened for a decode is closed on every way out of unpack,   *)
(* a normal return or an exception at any step, and the object holds        *)
(* nothing but the four decoded attributes.                                 *)
FileClosedOnExit ==
    pc = "idle" =>
        /\ iccf.state # "open"
        /\ (calls > 0 /\ present) => iccf.state = "closed"
        /\ DOMAIN self \subseteq UnpackAttributes

\* A call that raised after the file was opened has ended.
FileClosedWitness ==
    /\ CallEnded /\ present
    /\ exc = "struct.error" /\ raised_at = "count"
    /\ iccf.state = "closed"

\* The strings the version fields of the inputs are to give.
ExpectedVersionStr ==
    { <<<<2, 16, 0, 0>>, "2.1.0 sub 0.0">>,
      <<<<4, 48, 0, 0>>, "4.3.0 sub 0.0">>,
      <<<<0, 15, 255, 1>>, "0.0.15 sub 255.1">>,
      <<<<255, 240, 9, 255>>, "255.15.0 sub 9.255">>,
      <<<<5, 255, 10, 100>>, "5.15.15 sub 10.100">>,
      <<<<12, 35, 200, 7>>, "12.2.3 sub 200.7">>,
      <<<<0, 0, 0, 0>>, "0.0.0 sub 0.0">> }

VersionStrOf(b) ==
    Str(b[1]) \o "." \o Str(b[2] \div 16) \o "." \o Str(b[2] % 16)
    \o " sub " \o Str(b[3]) \o "." \o Str(b[4])

(* C9: get_version_str returns "{b0}.{b1 div 16}.{b1 mod 16} sub {b2}.{b3}" *)
(* in decimal for the version bytes (b0, b1, b2, b3) of the header, so      *)
(* "2.1.0 sub 0.0" for (2, 0x10, 0, 0); minor and bugfix are in 0..15; and  *)
(* the call changes no attribute of the profile.                            *)
VersionFormatting ==
    /\ [](version_str # "" =>
            LET b == self["header"]["version"]
            IN  /\ version_str = VersionStrOf(b)
                /\ \A e \in ExpectedVersionStr : e[1] = b => version_str = e[2]
                /\ Minor(b) \in 0..15
                /\ Bugfix(b) \in 0..15)
    /\ [][version_str' # version_str /\ version_str' # "" => self' = self]_vars

\* get_version_str has returned on a header of version bytes (2, 16, 0, 0).
VersionFormattingWitness ==
    /\ version_str = "2.1.0 sub 0.0"
    /\ self["header"]["version"] = <<2, 16, 0, 0>>

RECURSIVE TagSizes(_, _)
TagSizes(tags, n) ==
    IF n = 0 THEN 0 ELSE TagSizes(tags, n - 1) + tags[n]["size"]

\* The header layout: 23 fields, 128 bytes.
HeaderLayout ==
    /\ calcsize(HeaderFormat) = 128
    /\ Len(FormatFields(HeaderFormat)) = 23
    /\ Len(ICCHeaderFields) = 23

\* Where each step finds the position, and what is assigned by then: the
\* header step at 0, the count at 128, directory entry k at 132 + 12 * k,
\* the first payload at 132 + 12 * N.
StepPositions ==
    /\ pc = "header" => iccf.pos = 0 /\ ~HasAttr(self, "header")
    /\ pc = "count" =>
          iccf.pos = 128 /\ HasAttr(self, "header") /\ ~HasAttr(self, "num_tags")
    /\ pc = "dir" =>
          /\ iccf.pos = 132 + 12 * Len(acc)
          /\ HasAttr(self, "num_tags") /\ ~HasAttr(self, "tags")
    /\ pc = "payload" =>
          /\ acc = <<>> => iccf.pos = 132 + 12 * self["num_tags"]
          /\ iccf.pos >= 132 + 12 * self["num_tags"]
          /\ Len(self["tags"]) = self["num_tags"]
          /\ ~HasAttr(self, "tag_elements")
    /\ iccf.pos <= Len(filedata)

\* Where a call that returns leaves the position: right after the last
\* payload, whatever follows it.
EndPosition ==
    (pc \in {"exit", "idle"} /\ calls > 0 /\ present /\ exc = "none") =>
        iccf.pos = 132 + 12 * self["num_tags"]
                   + TagSizes(self["tags"], Len(self["tags"]))

(* C10: unpack is one forward pass: the header layout is 23 fields of 128   *)
(* bytes in all; the steps come in the order header, count, directory,      *)
(* payloads, the position being 128 after the header step, 132 after the    *)
(* count, 132 + 12 * N after the directory and, when unpack returns,        *)
(* 132 + 12 * N + sum(size_i), the bytes after the last payload unread.     *)
ForwardPass == HeaderLayout /\ StepPositions /\ EndPosition

====
